---- MODULE Spec2Model ----
(***************************************************************************)
(* Model of the "List Open Files" VS Code extension (src/src/extension.ts, *)
(* latest revision, lines 288-934): the path filter shouldSkipFile and the *)
(* three commands listOpenFiles, listModifiedFiles and                     *)
(* listBranchComparisonFiles.                                              *)
(*                                                                         *)
(* Strings are sequences of one-character strings, so that startsWith,     *)
(* includes and trim are computed and not assumed.  The output document    *)
(* is kept as the sequence of blocks that the code concatenates.           *)
(***************************************************************************)
EXTENDS Naturals, Integers, Sequences, FiniteSets, TLC

\* ---------------------------------------------------------------- bounds
\* longest path handed to the path filter in SpecFilter
MaxPathLen == 6
\* most tabs open over all tab groups
MaxTabs == 3
\* most repositories known to the git collaborator
MaxRepos == 2
\* most changes over all change lists of all repositories
MaxChanges == 3
\* most branches one enumeration reports
MaxBranches == 2
\* most lines one diff or log query prints
MaxDiffLines == 2

\* ---------------------------------------------------------------- strings
Range(s) == {s[i] : i \in 1..Len(s)}

\* String.prototype.startsWith
StartsWith(s, pre) ==
  /\ Len(pre) <= Len(s)
  /\ SubSeq(s, 1, Len(pre)) = pre

\* String.prototype.indexOf from position i (1-based), 0 when absent
RECURSIVE IndexOfFrom(_, _, _)
IndexOfFrom(s, sub, i) ==
  IF i + Len(sub) - 1 > Len(s) THEN 0
  ELSE IF SubSeq(s, i, i + Len(sub) - 1) = sub THEN i
  ELSE IndexOfFrom(s, sub, i + 1)

\* String.prototype.includes
Includes(s, sub) == IndexOfFrom(s, sub, 1) # 0

WhiteSpace == {" ", "\t", "\n"}

\* String.prototype.trim
RECURSIVE TrimStart(_)
TrimStart(s) ==
  IF s # <<>> /\ Head(s) \in WhiteSpace THEN TrimStart(Tail(s)) ELSE s

RECURSIVE TrimEnd(_)
TrimEnd(s) ==
  IF s # <<>> /\ s[Len(s)] \in WhiteSpace
  THEN TrimEnd(SubSeq(s, 1, Len(s) - 1)) ELSE s

Trim(s) == TrimEnd(TrimStart(s))

GitSlash == <<"g", "i", "t", "/">>
DotGit == <<".", "g", "i", "t">>

\* ---------------------------------------------------------------- path filter
\* shouldSkipFile without its startsWith('git/') test
shouldSkipFile_NoPrefix(path) ==
  Includes(path, DotGit) \/ StartsWith(path, DotGit)

\* shouldSkipFile testing "git/" anywhere in the path
shouldSkipFile_AnyGitDir(path) ==
  Includes(path, GitSlash) \/ Includes(path, DotGit) \/ StartsWith(path, DotGit)

\* lines 343-346
shouldSkipFile(path) ==
  \/ StartsWith(path, GitSlash)
  \/ Includes(path, DotGit)
  \/ StartsWith(path, DotGit)

\* ---------------------------------------------------------------- state
VARIABLES
  cmd,              \* the command being run: "idle", "open", "modified", "branch"
  pc,               \* where the command is suspended
  notices,          \* notices shown so far: <<[kind, msg]>>
  created,          \* createOutputDocument has been called
  outputContent,    \* the blocks of the output document, in order
  openTabs,         \* listOpenFiles: the flattened tabs
  arrived,          \* listOpenFiles: tab indices whose load has completed, in completion order
  repositories,     \* listModifiedFiles: git.repositories as read
  modifiedFiles,    \* listModifiedFiles: the pick items
  selectedFiles,    \* what showQuickPick returned
  cursor,           \* the index of the selected file a loop is at
  currentBranch,    \* listBranchComparisonFiles: repo.state.HEAD / the resolved branch
  mainBranch,       \* listBranchComparisonFiles: the base branch
  changedFilePaths, \* listBranchComparisonFiles: the Set, in insertion order
  filePickItems,    \* listBranchComparisonFiles: the pick items
  attempts,         \* listBranchComparisonFiles: the queries executed, in order
  host,             \* listBranchComparisonFiles: is there a workspace folder, a repo.exec
  allBranches,      \* listBranchComparisonFiles: the local and remote branches as enumerated
  probe,            \* SpecFilter: the path handed to shouldSkipFile
  probeResult       \* SpecFilter: <<>>, then <<what shouldSkipFile returned>>

vars == <<cmd, pc, notices, created, outputContent, openTabs, arrived,
          repositories, modifiedFiles, selectedFiles, cursor, currentBranch,
          mainBranch, changedFilePaths, filePickItems, attempts, host,
          probe, probeResult>>

cmdVars == <<cmd, pc, notices, created, outputContent, openTabs, arrived,
             repositories, modifiedFiles, selectedFiles, cursor,
             currentBranch, mainBranch, changedFilePaths, filePickItems, attempts,
             host, allBranches>>

\* a Branch object of the given name, and the absent one
Branch(name) == [defined |-> TRUE, name |-> name]
NoBranch == [defined |-> FALSE, name |-> <<>>]

\* what showQuickPick returned: nothing yet, undefined (cancelled), or items
NotShown == [state |-> "notShown", items |-> <<>>]
Cancelled == [state |-> "undefined", items |-> <<>>]
Picked(items) == [state |-> "items", items |-> items]

\* the extension activated, no command running
Idle ==
  /\ cmd = "idle"
  /\ pc = "idle"
  /\ notices = <<>>
  /\ created = FALSE
  /\ outputContent = <<>>
  /\ openTabs = <<>>
  /\ arrived = <<>>
  /\ repositories = <<>>
  /\ modifiedFiles = <<>>
  /\ selectedFiles = NotShown
  /\ cursor = 1
  /\ currentBranch = NoBranch
  /\ mainBranch = NoBranch
  /\ changedFilePaths = <<>>
  /\ filePickItems = <<>>
  /\ attempts = <<>>
  /\ host = [workspaceFolder |-> FALSE, exec |-> FALSE]
  /\ allBranches = <<>>

\* ---------------------------------------------------------------- SpecFilter
Alphabet == {".", "g", "i", "t", "/", "a"}

SrcGitignore == <<"s","r","c","/",".","g","i","t","i","g","n","o","r","e">>
SrcGitReadme == <<"s","r","c","/","g","i","t","/","R","E","A","D","M","E",".","m","d">>
SrcMainTs == <<"s","r","c","/","m","a","i","n",".","t","s">>

ProbeInputs ==
  UNION {[1..n -> Alphabet] : n \in 0..MaxPathLen}
    \cup {SrcGitignore, SrcGitReadme, SrcMainTs}

InitFilter ==
  /\ Idle
  /\ probe \in ProbeInputs
  /\ probeResult = <<>>

ApplyFilter ==
  /\ probeResult = <<>>
  /\ probeResult' = <<shouldSkipFile(probe)>>
  /\ UNCHANGED <<probe, cmdVars>>

NextFilter == ApplyFilter

SpecFilter == InitFilter /\ [][NextFilter]_vars

\* ---------------------------------------------------------------- shared
\* paths and contents the host may report
PathA == <<"a">>
PathB == <<"b">>
PathDotGit == <<".", "g", "i", "t", "x">>
PathGitDir == <<"g", "i", "t", "/", "a">>
UntitledPath == <<"U", "n", "t", "i", "t", "l", "e", "d", "-", "1">>
Blank == <<" ">>
TextX == <<"x">>
TextY == <<"y">>

Info(msg) == [kind |-> "info", msg |-> msg]
Error(msg) == [kind |-> "error", msg |-> msg]

\* getDocumentInfo: the relative path and the text of a loaded document
getDocumentInfo(doc) == [path |-> doc.path, content |-> doc.content]

\* formatDocumentInfo: the block standing for path ":\n" content "\n\n"
formatDocumentInfo(info) ==
  [kind |-> "entry", path |-> info.path, content |-> info.content]

\* ---------------------------------------------------------------- listOpenFiles
\* a tab: its input is a text input or not; the document its uri opens
Tab(text, loads, untitled, path, content) ==
  [text |-> text, loads |-> loads, untitled |-> untitled,
   path |-> path, content |-> content]

NonTextTab == Tab(FALSE, TRUE, FALSE, <<>>, <<>>)
FailingTab == Tab(TRUE, FALSE, FALSE, PathB, <<>>)
FileTab(path, content) == Tab(TRUE, TRUE, FALSE, path, content)
UntitledTab(content) == Tab(TRUE, TRUE, TRUE, UntitledPath, content)

TabInputs ==
  {NonTextTab, FailingTab, UntitledTab(Blank), UntitledTab(TextX),
   FileTab(PathA, Blank), FileTab(PathA, TextX), FileTab(PathA, TextY),
   FileTab(PathB, TextX), FileTab(PathDotGit, TextX)}

TabSeqs == UNION {[1..n -> TabInputs] : n \in 0..MaxTabs}

\* the indices of the tabs with a text input, in tab order
TextIndices(tabs) == {i \in 1..Len(tabs) : tabs[i].text}

\* Promise.all: the documents in the order of the promises, whatever the
\* order in which they were fulfilled
RECURSIVE PromiseAllFrom(_, _)
PromiseAllFrom(tabs, i) ==
  IF i > Len(tabs) THEN <<>>
  ELSE IF tabs[i].text THEN <<tabs[i]>> \o PromiseAllFrom(tabs, i + 1)
  ELSE PromiseAllFrom(tabs, i + 1)

\* the documents in the order in which the loads were fulfilled
PromiseAll_ArrivalOrder(tabs, done) == [k \in 1..Len(done) |-> tabs[done[k]]]

\* line 372: the result of the batch, done being the order of fulfilment
PromiseAll(tabs, done) == PromiseAllFrom(tabs, 1)

\* the documents with the untitled ones left in
NotUntitled_None(docs) == docs

\* .filter(doc => !doc.isUntitled)
NotUntitled(docs) == SelectSeq(docs, LAMBDA d : ~d.untitled)

\* the filter of lines 383-390 run from the last document to the first
RECURSIVE SeenFilter_LastWins(_, _)
SeenFilter_LastWins(docs, seen) ==
  IF docs = <<>> THEN <<>>
  ELSE LET d == docs[Len(docs)]
           rest == SubSeq(docs, 1, Len(docs) - 1)
       IN IF shouldSkipFile(d.path) \/ d.path \in seen
          THEN SeenFilter_LastWins(rest, seen)
          ELSE IF Len(Trim(d.content)) > 0
               THEN SeenFilter_LastWins(rest, seen \cup {d.path}) \o <<d>>
               ELSE SeenFilter_LastWins(rest, seen \cup {d.path})

\* lines 383-390: the second filter, run left to right with the seenFiles set
RECURSIVE SeenFilter(_, _)
SeenFilter(docs, seen) ==
  IF docs = <<>> THEN <<>>
  ELSE LET d == Head(docs)
       IN IF shouldSkipFile(d.path) \/ d.path \in seen
          THEN SeenFilter(Tail(docs), seen)
          ELSE IF Len(Trim(d.content)) > 0
               THEN <<d>> \o SeenFilter(Tail(docs), seen \cup {d.path})
               ELSE SeenFilter(Tail(docs), seen \cup {d.path})

\* .map(getDocumentInfo).map(formatDocumentInfo)
FormatAll(docs) ==
  [k \in 1..Len(docs) |-> formatDocumentInfo(getDocumentInfo(docs[k]))]

\* lines 363-369 and the start of the batch of line 372
OpenInvoke ==
  /\ cmd = "idle"
  /\ \E tabs \in TabSeqs :
       /\ cmd' = "open"
       /\ openTabs' = tabs
       /\ IF Len(tabs) = 0
          THEN /\ notices' = Append(notices, Info("No open files found."))
               /\ pc' = "done"
          ELSE /\ notices' = notices
               /\ pc' = "loading"
  /\ UNCHANGED <<created, outputContent, arrived, repositories, modifiedFiles,
                 selectedFiles, cursor, currentBranch, mainBranch, changedFilePaths,
                 filePickItems, attempts, host, allBranches, probe, probeResult>>

\* one openTextDocument of the batch settles; a rejection rejects the batch
\* and the catch of line 396 reports it
OpenLoadSettles ==
  /\ cmd = "open"
  /\ pc = "loading"
  /\ \E i \in TextIndices(openTabs) \ Range(arrived) :
       /\ arrived' = Append(arrived, i)
       /\ IF openTabs[i].loads
          THEN UNCHANGED <<pc, notices>>
          ELSE /\ pc' = "done"
               /\ notices' = Append(notices, Error("Failed to list open files"))
  /\ UNCHANGED <<cmd, created, outputContent, openTabs, repositories,
                 modifiedFiles, selectedFiles, cursor, currentBranch, mainBranch,
                 changedFilePaths, filePickItems, attempts, host, allBranches, probe, probeResult>>

\* the batch is fulfilled: lines 381-395
OpenEmit ==
  /\ cmd = "open"
  /\ pc = "loading"
  /\ TextIndices(openTabs) = Range(arrived)
  /\ LET documents == PromiseAll(openTabs, arrived)
     IN outputContent' = FormatAll(SeenFilter(NotUntitled(documents), {}))
  /\ created' = TRUE
  /\ pc' = "done"
  /\ UNCHANGED <<cmd, notices, openTabs, arrived, repositories, modifiedFiles,
                 selectedFiles, cursor, currentBranch, mainBranch, changedFilePaths,
                 filePickItems, attempts, host, allBranches, probe, probeResult>>

\* ---------------------------------------------------------------- listModifiedFiles
\* a GitChange: its uri, and whether resolving its relative path throws
Change(path) == [uri |-> path, resolves |-> TRUE]
BadChange == [uri |-> <<>>, resolves |-> FALSE]

ChangeInputs == {Change(PathA), Change(PathB), Change(PathDotGit), BadChange}

\* vscode.workspace.asRelativePath of a uri inside the workspace
asRelativePath(uri) == uri

\* the texts a file on disk may hold
FileTexts == {Blank, TextX}

\* the items of s at the indices of S, in the order of s
RECURSIVE Pick(_, _, _)
Pick(s, S, i) ==
  IF i > Len(s) THEN <<>>
  ELSE IF i \in S THEN <<s[i]>> \o Pick(s, S, i + 1)
  ELSE Pick(s, S, i + 1)

\* a repository state: the changes of flat cut into the three lists by slot
RepoState(flat, slot, r) ==
  [indexChanges |-> Pick(flat, {i \in 1..Len(flat) : slot[i] = 3 * r - 2}, 1),
   workingTreeChanges |-> Pick(flat, {i \in 1..Len(flat) : slot[i] = 3 * r - 1}, 1),
   untrackedChanges |-> Pick(flat, {i \in 1..Len(flat) : slot[i] = 3 * r}, 1)]

\* the ways to cut m changes into k lists: the list of each change, never
\* decreasing
Slots(m, k) ==
  {f \in [1..m -> 1..k] : \A i \in 1..m : \A j \in 1..m : i <= j => f[i] <= f[j]}

ChangesOf(state) ==
  Range(state.indexChanges) \cup Range(state.workingTreeChanges)
    \cup Range(state.untrackedChanges)

NoRepeat(l) == \A i \in 1..Len(l) : \A j \in 1..Len(l) : l[i] = l[j] => i = j

\* what git can report: a list names a file once, an untracked file is in
\* no other list, and a file belongs to one repository; a file may be both
\* staged and changed in the working tree
Reportable(repos) ==
  /\ \A r \in 1..Len(repos) :
       /\ NoRepeat(repos[r].indexChanges)
       /\ NoRepeat(repos[r].workingTreeChanges)
       /\ NoRepeat(repos[r].untrackedChanges)
       /\ Range(repos[r].untrackedChanges) \cap
            (Range(repos[r].indexChanges) \cup Range(repos[r].workingTreeChanges)) = {}
  /\ \A r \in 1..Len(repos) : \A q \in 1..Len(repos) :
       r # q => ChangesOf(repos[r]) \cap ChangesOf(repos[q]) = {}

\* the three lists with the working tree first
RepoChanges_WorkingFirst(state) ==
  state.workingTreeChanges \o state.indexChanges \o state.untrackedChanges

\* lines 430-434
RepoChanges(state) ==
  state.indexChanges \o state.workingTreeChanges \o state.untrackedChanges

FilePickItem(label, uri) == [label |-> label, picked |-> TRUE, uri |-> uri]

\* lines 441-457: the loop over the changes of one repository
RECURSIVE PushChanges(_, _)
PushChanges(items, changes) ==
  IF changes = <<>> THEN items
  ELSE LET change == Head(changes)
       IN IF ~change.resolves
          THEN PushChanges(items, Tail(changes))
          ELSE LET relativePath == asRelativePath(change.uri)
               IN IF ~shouldSkipFile(relativePath)
                  THEN PushChanges(
                         Append(items, FilePickItem(relativePath, change.uri)),
                         Tail(changes))
                  ELSE PushChanges(items, Tail(changes))

\* lines 426-458: the loop over the repositories
RECURSIVE PushRepos(_, _)
PushRepos(items, repos) ==
  IF repos = <<>> THEN items
  ELSE PushRepos(PushChanges(items, RepoChanges(Head(repos))), Tail(repos))

\* what showQuickPick may return for the items shown
Selections(items) ==
  {Cancelled} \cup {Picked(Pick(items, S, 1)) : S \in SUBSET (1..Len(items))}

\* the test of lines 473 and 836 without its length test
NothingSelected_OnlyUndefined(sel) == sel.state = "undefined"

\* lines 473 and 836
NothingSelected(sel) == sel.state = "undefined" \/ Len(sel.items) = 0

\* lines 406-470, up to the await of showQuickPick
ModifiedInvoke ==
  /\ cmd = "idle"
  /\ cmd' = "modified"
  /\ \E gitExtension \in BOOLEAN, n \in 0..MaxRepos, m \in 0..MaxChanges :
     \E slot \in Slots(m, 3 * n) : \E flat \in [1..m -> ChangeInputs] :
     LET repos == [r \in 1..n |-> RepoState(flat, slot, r)]
     IN
       /\ Reportable(repos)
       /\ IF ~gitExtension
          THEN /\ repos = <<>>
               /\ notices' = Append(notices, Error("Git extension not found or not activated."))
               /\ pc' = "done"
               /\ UNCHANGED <<repositories, modifiedFiles>>
          ELSE /\ repositories' = repos
               /\ IF Len(repos) = 0
                  THEN /\ notices' = Append(notices, Info("No Git repositories found in workspace."))
                       /\ pc' = "done"
                       /\ UNCHANGED modifiedFiles
                  ELSE /\ modifiedFiles' = PushRepos(<<>>, repos)
                       /\ IF Len(modifiedFiles') = 0
                          THEN /\ notices' = Append(notices, Info("No modified files found."))
                               /\ pc' = "done"
                          ELSE /\ notices' = notices
                               /\ pc' = "pick"
  /\ UNCHANGED <<created, outputContent, openTabs, arrived, selectedFiles,
                 cursor, currentBranch, mainBranch, changedFilePaths,
                 filePickItems, attempts, host, allBranches, probe, probeResult>>

\* lines 466-478: showQuickPick returns.  The repositories are not read
\* again, and the model lets go of them here.
ModifiedPick ==
  /\ cmd = "modified"
  /\ pc = "pick"
  /\ \E sel \in Selections(modifiedFiles) :
       /\ selectedFiles' = sel
       /\ pc' = IF NothingSelected(sel) THEN "done" ELSE "process"
  /\ repositories' = <<>>
  /\ cursor' = 1
  /\ UNCHANGED <<cmd, notices, created, outputContent, openTabs, arrived,
                 modifiedFiles, currentBranch, mainBranch, changedFilePaths,
                 filePickItems, attempts, host, allBranches, probe, probeResult>>

\* lines 479-488: one turn of the loop over the selected files
ModifiedLoad ==
  /\ cmd = "modified"
  /\ pc = "process"
  /\ cursor <= Len(selectedFiles.items)
  /\ LET file == selectedFiles.items[cursor]
     IN \/ \E text \in FileTexts :
             LET doc == [path |-> asRelativePath(file.uri), content |-> text]
             IN outputContent' =
                  Append(outputContent, formatDocumentInfo(getDocumentInfo(doc)))
        \/ outputContent' = outputContent
  /\ cursor' = cursor + 1
  /\ UNCHANGED <<cmd, pc, notices, created, openTabs, arrived, repositories,
                 modifiedFiles, selectedFiles, currentBranch, mainBranch,
                 changedFilePaths, filePickItems, attempts, host, allBranches, probe, probeResult>>

\* line 490
ModifiedEmit ==
  /\ cmd = "modified"
  /\ pc = "process"
  /\ cursor > Len(selectedFiles.items)
  /\ created' = TRUE
  /\ pc' = "done"
  /\ UNCHANGED <<cmd, notices, outputContent, openTabs, arrived, repositories,
                 modifiedFiles, selectedFiles, cursor, currentBranch, mainBranch,
                 changedFilePaths, filePickItems, attempts, host, allBranches, probe, probeResult>>

\* ---------------------------------------------------------------- listBranchComparisonFiles
\* names are sequences too, so that trim applies to them
HeadName == <<"h">>
ShownName == <<"f">>
SymbolicName == <<"s">>
TypedName == <<"p">>

\* repo.state.HEAD: undefined, a branch without a name, a named branch
HeadInputs == {NoBranch, Branch(<<>>), Branch(HeadName)}

Throws == [ok |-> FALSE, out |-> <<>>]
Returns(out) == [ok |-> TRUE, out |-> out]

\* what "git branch --show-current" and "git symbolic-ref --short HEAD" print
ShowCurrentResults ==
  {Throws, Returns(<<>>), Returns(<<"\n">>), Returns(ShownName \o <<"\n">>)}
SymbolicRefResults ==
  {Throws, Returns(<<>>), Returns(<<"\n">>), Returns(SymbolicName \o <<"\n">>)}

\* what showInputBox gives: a rejection, undefined, or the typed text
Dismissed == [ok |-> TRUE, out |-> <<"undefined">>]
InputBoxResults ==
  {Throws, Dismissed, Returns(<<>>), Returns(<<" ">>), Returns(TypedName)}

Main == <<"main">>
Master == <<"master">>
OriginMain == <<"origin/main">>
OriginMaster == <<"origin/master">>
Dev == <<"dev">>
BranchNames == {Main, Master, OriginMain, OriginMaster, Dev}

\* the enumerations getBranches may report: distinct names
BranchLists ==
  UNION {{l \in [1..n -> BranchNames] :
            \A i \in 1..n : \A j \in 1..n : l[i] = l[j] => i = j}
         : n \in 0..MaxBranches}

\* Array.prototype.find on the names: the first one in the set, if any
RECURSIVE Find(_, _)
Find(names, wanted) ==
  IF names = <<>> THEN NoBranch
  ELSE IF Head(names) \in wanted THEN Branch(Head(names))
  ELSE Find(Tail(names), wanted)

\* lines 625-627 and 635-640
FindLocal(names) == Find(names, {Main, Master})
FindRemote(names) == Find(names, {Main, Master, OriginMain, OriginMaster})

CanExecIn(h) == h.workspaceFolder /\ h.exec

\* where the ladder of lines 526-619 goes next, given currentBranch
AfterMethod3(cb) == IF ~cb.defined THEN "lostBranch" ELSE "localBranches"
AfterMethod2(cb) == IF ~cb.defined THEN "prompt" ELSE AfterMethod3(cb)
\* Method 2 without the test of currentBranch at line 553
AfterMethod1_Always(cb, h) ==
  IF CanExecIn(h) THEN "symbolicRef" ELSE AfterMethod2(cb)
AfterMethod1(cb, h) ==
  IF ~cb.defined /\ CanExecIn(h) THEN "symbolicRef" ELSE AfterMethod2(cb)
AfterHead(cb, h) ==
  IF ~cb.defined \/ cb.name = <<>>
  THEN IF CanExecIn(h) THEN "showCurrent" ELSE AfterMethod1(cb, h)
  ELSE "localBranches"

\* lines 498-530
BranchInvoke ==
  /\ cmd = "idle"
  /\ cmd' = "branch"
  /\ \E gitExtension \in BOOLEAN, anyRepository \in BOOLEAN :
       IF ~gitExtension
       THEN /\ ~anyRepository
            /\ notices' = Append(notices, Error("Git extension not found or not activated."))
            /\ pc' = "done"
            /\ UNCHANGED <<currentBranch, host>>
       ELSE IF ~anyRepository
       THEN /\ notices' = Append(notices, Info("No Git repositories found in workspace."))
            /\ pc' = "done"
            /\ UNCHANGED <<currentBranch, host>>
       ELSE /\ \E head \in HeadInputs :
                 \E h \in [workspaceFolder : BOOLEAN, exec : BOOLEAN] :
                   /\ currentBranch' = head
                   /\ host' = h
                   /\ pc' = AfterHead(head, h)
            /\ notices' = notices
  /\ UNCHANGED <<created, outputContent, openTabs, arrived, repositories,
                 modifiedFiles, selectedFiles, cursor, mainBranch,
                 changedFilePaths, filePickItems, attempts, allBranches, probe,
                 probeResult>>

\* the name a query gave, as lines 534 and 557 take it
QueriedBranch(cb, res) ==
  IF res.ok /\ Trim(res.out) # <<>> THEN Branch(Trim(res.out)) ELSE cb

\* lines 531-549: Method 1, "git branch --show-current"
BranchShowCurrent ==
  /\ cmd = "branch"
  /\ pc = "showCurrent"
  /\ \E res \in ShowCurrentResults :
       /\ currentBranch' = QueriedBranch(currentBranch, res)
       /\ pc' = AfterMethod1(currentBranch', host)
  /\ attempts' = Append(attempts, "show-current")
  /\ UNCHANGED <<cmd, notices, created, outputContent, openTabs, arrived,
                 repositories, modifiedFiles, selectedFiles, cursor, mainBranch,
                 changedFilePaths, filePickItems, host, allBranches, probe, probeResult>>

\* lines 553-573: Method 2, "git symbolic-ref --short HEAD"
BranchSymbolicRef ==
  /\ cmd = "branch"
  /\ pc = "symbolicRef"
  /\ \E res \in SymbolicRefResults :
       /\ currentBranch' = QueriedBranch(currentBranch, res)
       /\ pc' = AfterMethod2(currentBranch')
  /\ attempts' = Append(attempts, "symbolic-ref")
  /\ UNCHANGED <<cmd, notices, created, outputContent, openTabs, arrived,
                 repositories, modifiedFiles, selectedFiles, cursor, mainBranch,
                 changedFilePaths, filePickItems, host, allBranches, probe, probeResult>>

\* lines 576-598: Method 3, the input box
BranchPrompt ==
  /\ cmd = "branch"
  /\ pc = "prompt"
  /\ attempts' = Append(attempts, "prompt")
  /\ \E res \in InputBoxResults :
       IF ~res.ok
       THEN /\ pc' = AfterMethod3(currentBranch)
            /\ UNCHANGED <<currentBranch, notices>>
       ELSE IF res = Dismissed \/ res.out = <<>>
       THEN /\ notices' = Append(notices,
                 Error("Branch comparison cancelled. No branch name provided."))
            /\ pc' = "done"
            /\ UNCHANGED currentBranch
       ELSE /\ currentBranch' = Branch(res.out)
            /\ pc' = AfterMethod3(currentBranch')
            /\ UNCHANGED notices
  /\ UNCHANGED <<cmd, created, outputContent, openTabs, arrived,
                 repositories, modifiedFiles, selectedFiles, cursor, mainBranch,
                 changedFilePaths, filePickItems, host, allBranches, probe, probeResult>>

\* lines 601-618: no branch after every method
BranchLost ==
  /\ cmd = "branch"
  /\ pc = "lostBranch"
  /\ attempts' = Append(attempts, "getBranches")
  /\ \E listed \in BOOLEAN :
       notices' = Append(notices,
         IF listed
         THEN Error("Unable to determine current branch. You might be in a detached HEAD state or the repository might not have any commits yet.")
         ELSE Error("Unable to determine current branch. Error getting branch information."))
  /\ pc' = "done"
  /\ UNCHANGED <<cmd, created, outputContent, openTabs, arrived,
                 repositories, modifiedFiles, selectedFiles, cursor,
                 currentBranch, mainBranch, changedFilePaths, filePickItems,
                 host, allBranches, probe, probeResult>>

\* where Step C starts: lines 663-664 and 709-712
FirstDiffStep(h) == IF h.workspaceFolder THEN "diff3" ELSE "repoDiff"

\* lines 622-627: the local branches
BranchLocalBranches ==
  /\ cmd = "branch"
  /\ pc = "localBranches"
  /\ attempts' = Append(attempts, "getBranches local")
  /\ \/ /\ notices' = Append(notices, Error("Failed to compare branches"))
        /\ pc' = "done"
        /\ UNCHANGED mainBranch
     \/ \E branches \in BranchLists :
          /\ mainBranch' = FindLocal(branches)
          /\ pc' = IF mainBranch'.defined THEN FirstDiffStep(host)
                   ELSE "remoteBranches"
          /\ UNCHANGED notices
  /\ UNCHANGED <<cmd, created, outputContent, openTabs, arrived,
                 repositories, modifiedFiles, selectedFiles, cursor,
                 currentBranch, changedFilePaths, filePickItems,
                 host, allBranches, probe, probeResult>>

\* lines 630-650: the local and remote branches
BranchRemoteBranches ==
  /\ cmd = "branch"
  /\ pc = "remoteBranches"
  /\ attempts' = Append(attempts, "getBranches remote")
  /\ \/ /\ notices' = Append(notices, Error("Failed to compare branches"))
        /\ pc' = "done"
        /\ UNCHANGED <<mainBranch, allBranches>>
     \/ \E enumerated \in BranchLists :
          /\ allBranches' = enumerated
          /\ mainBranch' = FindRemote(enumerated)
          /\ IF mainBranch'.defined
             THEN /\ pc' = FirstDiffStep(host)
                  /\ UNCHANGED notices
             ELSE /\ pc' = "done"
                  /\ notices' = Append(notices,
                       Error("No main or master branch found in the repository (checked both local and remote)."))
  /\ UNCHANGED <<cmd, created, outputContent, openTabs, arrived,
                 repositories, modifiedFiles, selectedFiles, cursor,
                 currentBranch, changedFilePaths, filePickItems,
                 host, probe, probeResult>>

\* what a diff or log query prints, line by line, or its failure
DiffLines == {PathA, PathB, PathDotGit, PathGitDir, Blank}
ExecResults ==
  {Throws} \cup
  UNION {{Returns(l) : l \in [1..n -> DiffLines]} : n \in 0..MaxDiffLines}

\* a line of what repo.diff returns: "diff --git a/<a> b/<b>" or another line
DiffGit(a) == [diffGit |-> TRUE, a |-> a]
OtherLine == [diffGit |-> FALSE, a |-> <<>>]
DiffApiLines == {DiffGit(PathA), DiffGit(PathB), DiffGit(PathDotGit), OtherLine}
DiffApiResults ==
  {Throws} \cup
  UNION {{Returns(l) : l \in [1..n -> DiffApiLines]} : n \in 0..MaxDiffLines}

\* stdout.trim().split('\n').filter(line => line.trim() !== '')
FileList(stdout) == SelectSeq(stdout, LAMBDA line : Trim(line) # <<>>)

\* Set.prototype.add, the Set kept in insertion order
SetAdd(set, x) == IF x \in Range(set) THEN set ELSE Append(set, x)

\* lines 678-682, 697-701, 725-729, 776-780
RECURSIVE AddFiles(_, _)
AddFiles(set, fileList) ==
  IF fileList = <<>> THEN set
  ELSE IF ~shouldSkipFile(Head(fileList))
       THEN AddFiles(SetAdd(set, Head(fileList)), Tail(fileList))
       ELSE AddFiles(set, Tail(fileList))

\* lines 743-751: the first group of each "diff --git" line
RECURSIVE AddDiffLines(_, _)
AddDiffLines(set, diffLines) ==
  IF diffLines = <<>> THEN set
  ELSE IF Head(diffLines).diffGit /\ Head(diffLines).a # <<>>
       THEN AddDiffLines(SetAdd(set, Head(diffLines).a), Tail(diffLines))
       ELSE AddDiffLines(set, Tail(diffLines))

\* the pick items without the test of line 811
PickItemsOf_Unfiltered(paths) ==
  [k \in 1..Len(paths) |-> FilePickItem(paths[k], paths[k])]

\* lines 808-826
PickItemsOf(paths) ==
  LET kept == SelectSeq(paths, LAMBDA filePath : ~shouldSkipFile(filePath))
  IN [k \in 1..Len(kept) |-> FilePickItem(kept[k], kept[k])]

\* where Step C goes after each approach: lines 709, 738, 760, 790
AfterApproach4(changed) == IF changed = <<>> THEN "noDiff" ELSE "pick"
AfterApproach3(changed, h) ==
  IF changed = <<>> /\ CanExecIn(h) THEN "log" ELSE AfterApproach4(changed)
\* repo.diff run without the test of the size at line 738
AfterApproach2_Always(changed, h) == "repoDiff"
AfterApproach2(changed, h) ==
  IF changed = <<>> THEN "repoDiff" ELSE AfterApproach3(changed, h)
AfterApproach1(changed, h) ==
  IF changed = <<>> /\ CanExecIn(h) THEN "execDiff" ELSE AfterApproach2(changed, h)

\* a step of Step C ends with the set as changed and goes to target.  The
\* enumeration of line 632 is not read again, and the model lets go of it.
Arrive(changed, target) ==
  /\ changedFilePaths' = changed
  /\ allBranches' = <<>>
  /\ pc' = IF target = "noDiff" THEN "done" ELSE target
  /\ notices' = IF target = "noDiff"
                THEN Append(notices, Info("No differences found"))
                ELSE notices
  /\ filePickItems' = IF target = "pick" THEN PickItemsOf(changed)
                      ELSE filePickItems

\* lines 662-682: Approach 1, the raw three-dot diff
BranchDiff3 ==
  /\ cmd = "branch"
  /\ pc = "diff3"
  /\ attempts' = Append(attempts, "diff3")
  /\ \E res \in ExecResults :
       IF ~res.ok
       THEN Arrive(changedFilePaths, AfterApproach1(changedFilePaths, host))
       ELSE LET changed == AddFiles(changedFilePaths, FileList(res.out))
            IN IF changed = <<>>
               THEN Arrive(changed, "diff2")
               ELSE Arrive(changed, AfterApproach1(changed, host))
  /\ UNCHANGED <<cmd, created, outputContent, openTabs, arrived,
                 repositories, modifiedFiles, selectedFiles, cursor,
                 currentBranch, mainBranch, host, probe, probeResult>>

\* lines 685-706: the raw two-dot diff
BranchDiff2 ==
  /\ cmd = "branch"
  /\ pc = "diff2"
  /\ attempts' = Append(attempts, "diff2")
  /\ \E res \in ExecResults :
       LET changed == IF res.ok
                      THEN AddFiles(changedFilePaths, FileList(res.out))
                      ELSE changedFilePaths
       IN Arrive(changed, AfterApproach1(changed, host))
  /\ UNCHANGED <<cmd, created, outputContent, openTabs, arrived,
                 repositories, modifiedFiles, selectedFiles, cursor,
                 currentBranch, mainBranch, host, probe, probeResult>>

\* lines 709-734: Approach 2, the three-dot diff through repo.exec
BranchExecDiff ==
  /\ cmd = "branch"
  /\ pc = "execDiff"
  /\ attempts' = Append(attempts, "exec diff3")
  /\ \E res \in ExecResults :
       LET changed == IF res.ok
                      THEN AddFiles(changedFilePaths, FileList(res.out))
                      ELSE changedFilePaths
       IN Arrive(changed, AfterApproach2(changed, host))
  /\ UNCHANGED <<cmd, created, outputContent, openTabs, arrived,
                 repositories, modifiedFiles, selectedFiles, cursor,
                 currentBranch, mainBranch, host, probe, probeResult>>

\* lines 738-757: repo.diff
BranchRepoDiff ==
  /\ cmd = "branch"
  /\ pc = "repoDiff"
  /\ attempts' = Append(attempts, "repo.diff")
  /\ \E res \in DiffApiResults :
       LET changed == IF res.ok
                      THEN AddDiffLines(changedFilePaths, res.out)
                      ELSE changedFilePaths
       IN Arrive(changed, AfterApproach3(changed, host))
  /\ UNCHANGED <<cmd, created, outputContent, openTabs, arrived,
                 repositories, modifiedFiles, selectedFiles, cursor,
                 currentBranch, mainBranch, host, probe, probeResult>>

\* lines 760-785: Approach 3, the log of base..current
BranchLog ==
  /\ cmd = "branch"
  /\ pc = "log"
  /\ attempts' = Append(attempts, "log")
  /\ \E res \in ExecResults :
       LET changed == IF res.ok
                      THEN AddFiles(changedFilePaths, FileList(res.out))
                      ELSE changedFilePaths
       IN Arrive(changed, AfterApproach4(changed))
  /\ UNCHANGED <<cmd, created, outputContent, openTabs, arrived,
                 repositories, modifiedFiles, selectedFiles, cursor,
                 currentBranch, mainBranch, host, probe, probeResult>>

\* the text of a file on the base branch, and in the working copy
BaseTexts == {TextX}
WorkingTexts == {TextY}
MissingInBase == <<"[File does not exist in base or error occurred]">>
Unreadable == <<"[Unable to read current file content]">>

Header(current, base) == [kind |-> "header", path |-> current, content |-> base]
Label(text) == [kind |-> "label", path |-> <<>>, content |-> <<text>>]
Entry(path, content) == [kind |-> "entry", path |-> path, content |-> content]

\* lines 829-847: showQuickPick returns
BranchPick ==
  /\ cmd = "branch"
  /\ pc = "pick"
  /\ \E sel \in Selections(filePickItems) :
       /\ selectedFiles' = sel
       /\ IF NothingSelected(sel)
          THEN /\ pc' = "done"
               /\ UNCHANGED outputContent
          ELSE /\ pc' = "original"
               /\ outputContent' =
                    <<Header(currentBranch.name, mainBranch.name),
                      Label("original:")>>
  /\ cursor' = 1
  /\ UNCHANGED <<cmd, notices, created, openTabs, arrived, repositories,
                 modifiedFiles, currentBranch, mainBranch, changedFilePaths,
                 filePickItems, attempts, host, allBranches, probe, probeResult>>

\* lines 849-886: one turn of the loop of the original section: git show,
\* else repo.show, else the placeholder; after the last turn, the label of
\* the modified section
BranchOriginal ==
  /\ cmd = "branch"
  /\ pc = "original"
  /\ cursor <= Len(selectedFiles.items)
  /\ LET file == selectedFiles.items[cursor]
         last == cursor = Len(selectedFiles.items)
     IN \E content \in BaseTexts \cup {MissingInBase} :
          LET out == Append(outputContent, Entry(file.label, content))
          IN outputContent' = IF last THEN Append(out, Label("modified:"))
                              ELSE out
  /\ pc' = IF cursor = Len(selectedFiles.items) THEN "modified" ELSE "original"
  /\ cursor' = IF cursor = Len(selectedFiles.items) THEN 1 ELSE cursor + 1
  /\ UNCHANGED <<cmd, notices, created, openTabs, arrived, repositories,
                 modifiedFiles, selectedFiles, currentBranch, mainBranch,
                 changedFilePaths, filePickItems, attempts, host, allBranches,
                 probe, probeResult>>

\* the loop of the modified section leaving out a file it cannot read
BranchModified_SkipsUnreadable ==
  /\ cmd = "branch"
  /\ pc = "modified"
  /\ cursor <= Len(selectedFiles.items)
  /\ LET file == selectedFiles.items[cursor]
     IN \/ /\ host.workspaceFolder
           /\ \E text \in WorkingTexts :
                outputContent' = Append(outputContent, Entry(file.label, text))
        \/ outputContent' = outputContent
  /\ pc' = IF cursor = Len(selectedFiles.items) THEN "emit" ELSE "modified"
  /\ cursor' = cursor + 1
  /\ UNCHANGED <<cmd, notices, created, openTabs, arrived, repositories,
                 modifiedFiles, selectedFiles, currentBranch, mainBranch,
                 changedFilePaths, filePickItems, attempts, host, allBranches,
                 probe, probeResult>>

\* lines 888-898: one turn of the loop of the modified section.  The uri
\* of line 814 names no file when there is no workspace folder.
BranchModified ==
  /\ cmd = "branch"
  /\ pc = "modified"
  /\ cursor <= Len(selectedFiles.items)
  /\ LET file == selectedFiles.items[cursor]
     IN \/ /\ host.workspaceFolder
           /\ \E text \in WorkingTexts :
                LET info == getDocumentInfo(
                              [path |-> asRelativePath(file.uri), content |-> text])
                IN outputContent' =
                     Append(outputContent, Entry(info.path, info.content))
        \/ outputContent' = Append(outputContent, Entry(file.label, Unreadable))
  /\ pc' = IF cursor = Len(selectedFiles.items) THEN "emit" ELSE "modified"
  /\ cursor' = cursor + 1
  /\ UNCHANGED <<cmd, notices, created, openTabs, arrived, repositories,
                 modifiedFiles, selectedFiles, currentBranch, mainBranch,
                 changedFilePaths, filePickItems, attempts, host, allBranches,
                 probe, probeResult>>

\* line 900
BranchEmit ==
  /\ cmd = "branch"
  /\ pc = "emit"
  /\ created' = TRUE
  /\ pc' = "done"
  /\ UNCHANGED <<cmd, notices, outputContent, openTabs, arrived, repositories,
                 modifiedFiles, selectedFiles, cursor, currentBranch, mainBranch,
                 changedFilePaths, filePickItems, attempts, host, allBranches,
                 probe, probeResult>>

\* ---------------------------------------------------------------- Spec
Init ==
  /\ Idle
  /\ probe = <<>>
  /\ probeResult = <<>>

Next ==
  \/ OpenInvoke
  \/ OpenLoadSettles
  \/ OpenEmit
  \/ ModifiedInvoke
  \/ ModifiedPick
  \/ ModifiedLoad
  \/ ModifiedEmit
  \/ BranchInvoke
  \/ BranchShowCurrent
  \/ BranchSymbolicRef
  \/ BranchPrompt
  \/ BranchLost
  \/ BranchLocalBranches
  \/ BranchRemoteBranches
  \/ BranchDiff3
  \/ BranchDiff2
  \/ BranchExecDiff
  \/ BranchRepoDiff
  \/ BranchLog
  \/ BranchPick
  \/ BranchOriginal
  \/ BranchModified
  \/ BranchEmit

Spec == Init /\ [][Next]_vars

\* ================================================================ claims
\* the rule of the path filter, stated position by position
HasAt(s, i, w) ==
  /\ i >= 1
  /\ i + Len(w) - 1 <= Len(s)
  /\ \A k \in 1..Len(w) : s[i + k - 1] = w[k]

SkipRule(p) ==
  \/ HasAt(p, 1, GitSlash)
  \/ \E i \in 1..Len(p) : HasAt(p, i, DotGit)
  \/ HasAt(p, 1, DotGit)

\* a "git/" directory segment that is not at the start of the path
GitDirInside(p) ==
  \E i \in 2..Len(p) : p[i - 1] = "/" /\ HasAt(p, i, GitSlash)

\* C4: for every string P, shouldSkipFile(P) is a boolean, and it is true
\* exactly when P starts with "git/", contains ".git" or starts with ".git".
C4_SkipIffRule ==
  probeResult # <<>> =>
    /\ probeResult[1] \in BOOLEAN
    /\ probeResult[1] = SkipRule(probe)

\* a path skipped only because it starts with "git/"
C4_Witness ==
  /\ probeResult = <<TRUE>>
  /\ HasAt(probe, 1, GitSlash)
  /\ ~ \E i \in 1..Len(probe) : HasAt(probe, i, DotGit)

\* C5 as claimed: "src/git/README.md" and "src/.gitignore" are skipped,
\* "src/main.ts" is kept, and every path with a "git/" directory segment
\* that is not at its start is skipped.
C5_Original ==
  probeResult # <<>> =>
    /\ probe = SrcGitReadme => probeResult[1] = TRUE
    /\ probe = SrcGitignore => probeResult[1] = TRUE
    /\ probe = SrcMainTs => probeResult[1] = FALSE
    /\ GitDirInside(probe) => probeResult[1] = TRUE

\* C5 amended: "src/git/README.md" is kept, "src/.gitignore" is skipped,
\* "src/main.ts" is kept, and a path with a "git/" directory segment that is
\* not at its start is skipped only if it also starts with "git/" or
\* contains ".git".
C5_Amended ==
  probeResult # <<>> =>
    /\ probe = SrcGitReadme => probeResult[1] = FALSE
    /\ probe = SrcGitignore => probeResult[1] = TRUE
    /\ probe = SrcMainTs => probeResult[1] = FALSE
    /\ GitDirInside(probe) =>
         (probeResult[1] = TRUE <=>
            \/ HasAt(probe, 1, GitSlash)
            \/ \E i \in 1..Len(probe) : HasAt(probe, i, DotGit))

\* "src/git/README.md" went through the filter and was kept
C5_Witness ==
  /\ probe = SrcGitReadme
  /\ GitDirInside(probe)
  /\ probeResult = <<FALSE>>

\* ---------------------------------------------------------------- listOpenFiles
NonBlank(c) == \E k \in 1..Len(c) : c[k] \notin WhiteSpace

EntriesFor(out, p) ==
  {k \in 1..Len(out) : out[k].kind = "entry" /\ out[k].path = p}

\* the text tabs whose document is saved and whose path the rule keeps
Candidates(tabs) ==
  {i \in 1..Len(tabs) :
     tabs[i].text /\ ~tabs[i].untitled /\ ~SkipRule(tabs[i].path)}

CandidatesFor(tabs, p) == {i \in Candidates(tabs) : tabs[i].path = p}

FirstFor(tabs, p) ==
  CHOOSE i \in CandidatesFor(tabs, p) : \A j \in CandidatesFor(tabs, p) : i <= j

\* the documents that survive every filter: first of their path, not blank
Survivors(tabs) ==
  {i \in Candidates(tabs) :
     i = FirstFor(tabs, tabs[i].path) /\ NonBlank(tabs[i].content)}

AllLoaded(tabs) == \A i \in 1..Len(tabs) : tabs[i].text => tabs[i].loads

\* C2 as claimed: whenever no document survives the filters of
\* listOpenFiles, also with tabs open, an informational notice is shown and
\* no output document is created.
C2_Original ==
  (cmd = "open" /\ pc = "done" /\ AllLoaded(openTabs)
     /\ Survivors(openTabs) = {}) =>
    /\ notices = <<Info("No open files found.")>>
    /\ ~created

\* C7: listOpenFiles emits no entry for an untitled document: every entry
\* is the path and text of a text tab whose document is not untitled.
C7_NoUntitledEntry ==
  (cmd = "open" /\ created) =>
    \A k \in 1..Len(outputContent) :
      /\ ~ \E i \in 1..Len(openTabs) :
             /\ openTabs[i].text /\ openTabs[i].untitled
             /\ openTabs[i].path = outputContent[k].path
      /\ \E i \in 1..Len(openTabs) :
             /\ openTabs[i].text /\ ~openTabs[i].untitled
             /\ openTabs[i].path = outputContent[k].path
             /\ openTabs[i].content = outputContent[k].content

\* an untitled document with text is open next to a file that is emitted
C7_Witness ==
  /\ cmd = "open" /\ created
  /\ UntitledTab(TextX) \in Range(openTabs)
  /\ outputContent # <<>>

\* C8 as claimed: two or more text tabs of one kept path give exactly one
\* entry, with the content of the first of them, also when that one is blank.
C8_Original ==
  (cmd = "open" /\ created) =>
    \A i \in Candidates(openTabs) :
      LET p == openTabs[i].path
      IN Cardinality(CandidatesFor(openTabs, p)) >= 2 =>
           /\ Cardinality(EntriesFor(outputContent, p)) = 1
           /\ \A k \in EntriesFor(outputContent, p) :
                outputContent[k].content = openTabs[FirstFor(openTabs, p)].content

\* C8 amended: two or more text tabs of one kept path give at most one
\* entry: exactly one, with the content of the first of them, when that
\* first one is not blank, and none when the first one is blank.
C8_Amended ==
  (cmd = "open" /\ created) =>
    \A i \in Candidates(openTabs) :
      LET p == openTabs[i].path
          first == openTabs[FirstFor(openTabs, p)]
      IN Cardinality(CandidatesFor(openTabs, p)) >= 2 =>
           IF NonBlank(first.content)
           THEN /\ Cardinality(EntriesFor(outputContent, p)) = 1
                /\ \A k \in EntriesFor(outputContent, p) :
                     outputContent[k].content = first.content
           ELSE EntriesFor(outputContent, p) = {}

\* two tabs of one path with different texts, the first one emitted
C8_Witness ==
  /\ cmd = "open" /\ created
  /\ \E i, j \in Candidates(openTabs) :
       /\ i < j
       /\ openTabs[i].path = openTabs[j].path
       /\ openTabs[i].content # openTabs[j].content
       /\ NonBlank(openTabs[i].content) /\ NonBlank(openTabs[j].content)
       /\ i = FirstFor(openTabs, openTabs[i].path)
       /\ EntriesFor(outputContent, openTabs[i].path) # {}

\* ---------------------------------------------------------------- listModifiedFiles
\* the changes of the repositories from the r-th on: per repository staged,
\* then working tree, then untracked
RECURSIVE AllChangesFrom(_, _)
AllChangesFrom(repos, r) ==
  IF r > Len(repos) THEN <<>>
  ELSE repos[r].indexChanges \o repos[r].workingTreeChanges
         \o repos[r].untrackedChanges \o AllChangesFrom(repos, r + 1)

Presentable(change) == change.resolves /\ ~SkipRule(change.uri)

\* C9: the selection list of listModifiedFiles is, repository by
\* repository, the staged, then the working-tree, then the untracked
\* changes, each list in its own order, without the filtered entries and
\* with nothing reordered; every item is pre-selected.
C9_PresentedOrder ==
  (cmd = "modified" /\ pc = "pick") =>
    LET kept == SelectSeq(AllChangesFrom(repositories, 1), Presentable)
    IN /\ Len(modifiedFiles) = Len(kept)
       /\ \A k \in 1..Len(kept) :
            /\ modifiedFiles[k].label = kept[k].uri
            /\ modifiedFiles[k].uri = kept[k].uri
            /\ modifiedFiles[k].picked = TRUE

\* a repository with a staged, a working-tree and an untracked change of
\* which at least two are presented, in two different paths
C9_Witness ==
  /\ cmd = "modified" /\ pc = "pick"
  /\ \E r \in 1..Len(repositories) :
       /\ repositories[r].indexChanges # <<>>
       /\ repositories[r].workingTreeChanges # <<>>
       /\ repositories[r].untrackedChanges # <<>>
       /\ repositories[r].indexChanges[1] # repositories[r].workingTreeChanges[1]
  /\ Len(modifiedFiles) >= 2
  /\ modifiedFiles[1].label # modifiedFiles[2].label

\* ---------------------------------------------------------------- all commands
IsEntry(out, k) == out[k].kind = "entry"

\* two blocks of one section: no section label between them
SameSection(out, i, j) == \A k \in i..j : out[k].kind # "label"

\* C1 as claimed: no relative path appears more than once among the entries
\* of one section of the output document of any of the three commands.
C1_Original ==
  created =>
    \A i \in 1..Len(outputContent) : \A j \in 1..Len(outputContent) :
      (i < j /\ IsEntry(outputContent, i) /\ IsEntry(outputContent, j)
         /\ SameSection(outputContent, i, j)) =>
        outputContent[i].path # outputContent[j].path

\* one file of a batch failed: a tab's document did not open, a selected
\* file was skipped, or a placeholder stands for a file's content
OpenFailure ==
  cmd = "open" /\ \E i \in Range(arrived) : ~openTabs[i].loads
ModifiedFailure ==
  /\ cmd = "modified" /\ selectedFiles.state = "items"
  /\ Len(outputContent) < Len(selectedFiles.items)
BranchFailure ==
  /\ cmd = "branch"
  /\ \E k \in 1..Len(outputContent) :
       outputContent[k].content \in {MissingInBase, Unreadable}

\* the tabs without the text tabs whose document does not open
Openable(tabs) == SelectSeq(tabs, LAMBDA t : t.text => t.loads)

\* C3 as claimed: when one file of a batch fails, the command still ends
\* with an output document, without an error notice, in which every other
\* file is present.
C3_Original ==
  (pc = "done" /\ (OpenFailure \/ ModifiedFailure \/ BranchFailure)) =>
    /\ created
    /\ \A n \in Range(notices) : n.kind # "error"
    /\ cmd = "open" =>
         \A i \in Survivors(Openable(openTabs)) :
           EntriesFor(outputContent, Openable(openTabs)[i].path) # {}
    /\ cmd = "branch" =>
         \A f \in Range(selectedFiles.items) :
           Cardinality(EntriesFor(outputContent, f.label)) = 2

\* C6: in all three commands no entry of the output document has a path
\* that the path filter skips.
C6_NoSkippedEntry ==
  \A k \in 1..Len(outputContent) :
    IsEntry(outputContent, k) => ~SkipRule(outputContent[k].path)

\* a branch comparison that found a skipped path and created its document
C6_Witness ==
  /\ cmd = "branch" /\ created
  /\ \E path \in Range(changedFilePaths) : SkipRule(path)
  /\ \E k \in 1..Len(outputContent) : IsEntry(outputContent, k)

\* C10: when the selection list of listModifiedFiles or of
\* listBranchComparisonFiles is cancelled or confirmed with nothing
\* selected, the command ends with no notice and no output document.
C10_SilentAbort ==
  (/\ cmd \in {"modified", "branch"}
   /\ \/ selectedFiles.state = "undefined"
      \/ selectedFiles.state = "items" /\ selectedFiles.items = <<>>) =>
    /\ pc = "done"
    /\ notices = <<>>
    /\ ~created
    /\ outputContent = <<>>

\* the list of changed files was shown and confirmed with nothing selected
C10_Witness ==
  /\ cmd = "branch" /\ pc = "done"
  /\ filePickItems # <<>>
  /\ selectedFiles.state = "items" /\ selectedFiles.items = <<>>

AfterLadder ==
  {"localBranches", "remoteBranches", "diff3", "diff2", "execDiff", "repoDiff", "log"}

\* C12: Step B and the diff queries are reached only with a current branch
\* whose name is not empty after trimming.
C12_Original ==
  (cmd = "branch" /\ pc \in AfterLadder) =>
    (currentBranch.defined /\ Trim(currentBranch.name) # <<>>)

Usable(cb) == cb.defined /\ cb.name # <<>>

\* C13: a step of the ladder runs only when no earlier step gave a usable
\* name: with the name of HEAD none of the three queries ran, with the name
\* of "git branch --show-current" neither the symbolic-ref query nor the
\* prompt ran, with the name of the symbolic-ref query the prompt did not.
C13_LadderStopsAtFirstName ==
  cmd = "branch" =>
    /\ pc \in {"showCurrent", "symbolicRef", "prompt"} => ~Usable(currentBranch)
    /\ currentBranch.name = HeadName =>
         Range(attempts) \cap {"show-current", "symbolic-ref", "prompt"} = {}
    /\ currentBranch.name = ShownName =>
         Range(attempts) \cap {"symbolic-ref", "prompt"} = {}
    /\ currentBranch.name = SymbolicName => "prompt" \notin Range(attempts)

\* "git branch --show-current" gave the name and Step B is next
C13_Witness ==
  /\ cmd = "branch"
  /\ currentBranch = Branch(ShownName)
  /\ attempts = <<"show-current">>
  /\ pc = "localBranches"

\* the first of main, master, origin/main, origin/master among the names
HighestPriority(names) ==
  IF Main \in Range(names) THEN Main
  ELSE IF Master \in Range(names) THEN Master
  ELSE IF OriginMain \in Range(names) THEN OriginMain
  ELSE OriginMaster

\* C14: when no local branch is main or master, the base branch taken from
\* the enumeration of local and remote branches is its match of highest
\* priority in the order main, master, origin/main, origin/master, whatever
\* the order of the enumeration; without a match the command ends with an
\* error notice.
C14_Original ==
  (cmd = "branch" /\ attempts # <<>>
     /\ attempts[Len(attempts)] = "getBranches remote"
     /\ Range(allBranches) \cap {Main, Master} = {}) =>
    IF mainBranch.defined
    THEN mainBranch.name = HighestPriority(allBranches)
    ELSE /\ pc = "done"
         /\ notices # <<>>
         /\ notices[Len(notices)].kind = "error"

\* C15: whenever the raw three-dot diff yields no file, also by a failed
\* process call, the raw two-dot diff is the next strategy; whenever that one
\* yields no file either and repo.exec can be used, the three-dot diff
\* through repo.exec is the next strategy.
C15_Original ==
  (cmd = "branch" /\ attempts # <<>> /\ changedFilePaths = <<>>) =>
    /\ attempts[Len(attempts)] = "diff3" => pc = "diff2"
    /\ (attempts[Len(attempts)] = "diff2" /\ CanExecIn(host)) => pc = "execDiff"

\* C16: the set of changed paths never holds a path that the path filter
\* skips, whatever strategy added to it.
C16_Original ==
  cmd = "branch" =>
    \A k \in 1..Len(changedFilePaths) : ~SkipRule(changedFilePaths[k])

DiffSteps == {"diff3", "diff2", "execDiff", "repoDiff", "log"}

\* C17: a strategy of Step C is attempted only while the set of changed
\* paths is empty, and once the set holds a path no step changes it: the
\* final set is what one strategy contributed, never a merge of two.
C17_FirstResultWins ==
  /\ [](cmd = "branch" /\ pc \in DiffSteps => changedFilePaths = <<>>)
  /\ [][changedFilePaths # <<>> => changedFilePaths' = changedFilePaths]_vars

\* the raw diffs and the diff through repo.exec gave nothing and repo.diff
\* gave the files
C17_Witness ==
  /\ cmd = "branch"
  /\ pc = "pick"
  /\ attempts[Len(attempts)] = "repo.diff"
  /\ {"diff3", "diff2", "exec diff3"} \subseteq Range(attempts)
  /\ changedFilePaths = <<PathA, PathB>>

\* C18: whatever the order in which the loads of listOpenFiles complete, the
\* entries of the output are the surviving documents in the order of their
\* tabs, the first tab of a path being the one that is kept.
C18_TabOrder ==
  (cmd = "open" /\ created) =>
    LET surv == Survivors(openTabs)
    IN /\ Len(outputContent) = Cardinality(surv)
       /\ \A k \in 1..Len(outputContent) :
            \E i \in surv :
              /\ Cardinality({j \in surv : j < i}) = k - 1
              /\ outputContent[k].path = openTabs[i].path
              /\ outputContent[k].content = openTabs[i].content

\* three tabs, the first two of one path with different texts, whose loads
\* complete in the reverse of the tab order
C18_Witness ==
  /\ cmd = "open"
  /\ created
  /\ arrived = <<3, 2, 1>>
  /\ openTabs[1].path = openTabs[2].path
  /\ openTabs[1].content # openTabs[2].content
  /\ Len(outputContent) = 2

\* C19: when Step C ends without a changed path that passes the path filter,
\* the "No differences found" notice is shown and no selection list is
\* presented.
C19_Original ==
  (cmd = "branch" /\ Range(attempts) \cap {"diff3", "repo.diff"} # {}
     /\ pc \notin DiffSteps
     /\ \A k \in 1..Len(changedFilePaths) : SkipRule(changedFilePaths[k])) =>
    /\ pc = "done"
    /\ selectedFiles = NotShown
    /\ notices # <<>>
    /\ notices[Len(notices)] = Info("No differences found")

====
